---- MODULE Spec2Model ----
(***************************************************************************)
(* A model of ghasn43/adv-auto: the file-backed account store and the      *)
(* dashboard shell of src/auth.py, and the content pipeline of             *)
(* src/tools.py.                                                           *)
(*                                                                         *)
(* Python strings are sequences of one-character strings, so that the      *)
(* regular expressions, len() and str.strip() are computed and not         *)
(* assumed.  An optional argument (a keyword that defaults to None) is a   *)
(* set with at most one element: {} is None, {v} is the value v.           *)
(***************************************************************************)
EXTENDS Integers, Sequences, FiniteSets, TLC

\* ------------------------------------------------------------------ bounds
\* The clock is read by datetime.now(); the model lets it reach MaxTime ticks.
MaxTime == 2
\* The number of calls of the store's operations in one run.
MaxCalls == 3
\* The number of calls to the chat-completion service a run may make.
MaxChatCalls == 3
\* the longest topic handed to a generator
MaxTopicLen == 2
\* the most posts handed to generate_image_prompts
MaxPosts == 2
\* the most prompts handed to generate_images
MaxPrompts == 2

\* ------------------------------------------------------------- characters
Lower == {"a","b","c","d","e","f","g","h","i","j","k","l","m",
          "n","o","p","q","r","s","t","u","v","w","x","y","z"}
Upper == {"A","B","C","D","E","F","G","H","I","J","K","L","M",
          "N","O","P","Q","R","S","T","U","V","W","X","Y","Z"}
Digits == {"0","1","2","3","4","5","6","7","8","9"}
Letters == Lower \cup Upper
\* [a-zA-Z0-9_]
UsernameChars == Letters \cup Digits \cup {"_"}
\* [a-zA-Z0-9._%+-]
EmailLocalChars == Letters \cup Digits \cup {".", "_", "%", "+", "-"}
\* [a-zA-Z0-9.-]
EmailDomainChars == Letters \cup Digits \cup {".", "-"}
\* what str.strip() removes
Whitespace == {" ", "\t", "\n", "\r"}

AllIn(s, lo, hi, chars) == \A i \in lo..hi : s[i] \in chars

\* Python's "$" matches at the end of the string and also just before a
\* newline that is the last character: the positions where "$" can match.
DollarEnds(s) ==
    {Len(s)} \cup (IF Len(s) >= 1 /\ s[Len(s)] = "\n" THEN {Len(s) - 1} ELSE {})

\* re.match("^[a-zA-Z0-9_]+$", username)
MatchUsername(username) ==
    \E e \in DollarEnds(username) :
        /\ e >= 1
        /\ AllIn(username, 1, e, UsernameChars)

\* re.match(r'^[a-zA-Z0-9._%+-]+@[a-zA-Z0-9.-]+\.[a-zA-Z]{2,}$', email):
\* local part 1..at-1, "@" at at, domain at+1..dot-1, "." at dot, tld dot+1..e
ValidateEmail(email) ==
    \E e \in DollarEnds(email) :
        \E at \in 2..e : \E dot \in (at + 2)..e :
            /\ email[at] = "@"
            /\ email[dot] = "."
            /\ AllIn(email, 1, at - 1, EmailLocalChars)
            /\ AllIn(email, at + 1, dot - 1, EmailDomainChars)
            /\ e - dot >= 2
            /\ AllIn(email, dot + 1, e, Letters)

\* What the specification calls the shape local@domain.tld, and a username of
\* letters, digits and underscores only: the whole string has the shape.
EmailShape(email) ==
    \E at \in 2..Len(email) : \E dot \in (at + 2)..Len(email) :
        /\ email[at] = "@"
        /\ email[dot] = "."
        /\ AllIn(email, 1, at - 1, EmailLocalChars)
        /\ AllIn(email, at + 1, dot - 1, EmailDomainChars)
        /\ Len(email) - dot >= 2
        /\ AllIn(email, dot + 1, Len(email), Letters)

OnlyUsernameChars(username) ==
    Len(username) >= 1 /\ AllIn(username, 1, Len(username), UsernameChars)

\* ------------------------------------------------------------ input values
uAdmin == <<"a","d","m","i","n">>
uUser  == <<"u","s","e","r">>
uAlice == <<"a","l","i","c","e">>
uSpace == <<"a","l"," ","i","c","e">>
uNewline == <<"b","o","b","\n">>

pAdmin123 == <<"a","d","m","i","n","1","2","3">>
pUser123  == <<"u","s","e","r","1","2","3">>
pSecret1  == <<"s","e","c","r","e","t","1">>
pShort    == <<"a","b","c","1","2">>

eAdmin == <<"a","d","m","i","n","@","e","x","a","m","p","l","e",".","c","o","m">>
eUser  == <<"u","s","e","r","@","e","x","a","m","p","l","e",".","c","o","m">>
eAlice == <<"a","l","i","c","e","@","x",".","c","o","m">>
eNotAnEmail == <<"n","o","t","-","a","n","-","e","m","a","i","l">>
eShortTld == <<"a","@","x",".","c">>
eNewline == <<"a","@","x",".","c","o","\n">>

\* ------------------------------------------------------------ Python values
None == {}
Some(v) == {v}
Get(o) == CHOOSE v \in o : TRUE

\* len(new_password) < 6
MinPasswordLen == 6

\* hashlib.sha256(password.encode()).hexdigest(): a digest of the password,
\* which is not the password and differs for different passwords.
HashPassword(password) == <<"sha256">> \o password

\* datetime.now().isoformat(): the clock counts half seconds; isoformat()
\* leaves the fractional part out when it is zero.
Isoformat(t) == IF t % 2 = 0 THEN <<t \div 2>> ELSE <<t \div 2, t % 2>>

\* datetime.fromisoformat(s): the instant a stored timestamp names
FromIsoformat(s) == 2 * s[1] + (IF Len(s) >= 2 THEN s[2] ELSE 0)

\* ------------------------------------------------------------ the store file
EmptyStore == << >>

NoFile == [kind |-> "absent", data |-> EmptyStore]
CorruptFile == [kind |-> "corrupt", data |-> EmptyStore]

\* json.dump(self.users, f, indent=4) and json.load(f): the mapping of
\* usernames to records of strings, booleans and null is what is written and
\* what is read back.
JsonDump(db) == [kind |-> "json", data |-> db]

\* UserDatabase._load_users: a missing file is an empty store, and so is a
\* file that cannot be read or parsed (bare except); nothing is raised.
LoadUsers(f) ==
    [raised |-> FALSE,
     users |-> IF f.kind = "json" THEN f.data ELSE EmptyStore]

\* UserDatabase._save_users: the file is rewritten in full
SaveUsers(db) == JsonDump(db)

\* self.users[username] = record
Put(db, username, rec) ==
    [k \in (DOMAIN db) \cup {username} |-> IF k = username THEN rec ELSE db[k]]

\* del self.users[username]
Del(db, username) == [k \in (DOMAIN db) \ {username} |-> db[k]]

\* What an operation of the store leaves behind and returns: the in-memory
\* store, the file, and the returned (success, message[, role]).
Outcome(db, f, ok, msg, role) ==
    [users |-> db, file |-> f, ok |-> ok, msg |-> msg, role |-> role]

\* ------------------------------------------------------------ UserDatabase
\* UserDatabase.create_user(username, password, email, role="user") at clock t
CreateUser(db, f, t, username, password, email, role) ==
    IF username \in DOMAIN db
    THEN Outcome(db, f, FALSE, "Username already exists", None)
    ELSE IF ~ValidateEmail(email)
    THEN Outcome(db, f, FALSE, "Invalid email format", None)
    ELSE IF ~MatchUsername(username)
    THEN Outcome(db, f, FALSE,
                 "Username can only contain letters, numbers, and underscores", None)
    ELSE LET db2 == Put(db, username,
                        [password |-> HashPassword(password),
                         email |-> email,
                         role |-> role,
                         created_at |-> Isoformat(t),
                         last_login |-> << >>,
                         active |-> TRUE])
         IN Outcome(db2, SaveUsers(db2), TRUE, "User created successfully", None)

\* update_user whose keyword active defaults to True and not to None
UpdateUserActiveDefaultsTrue(db, f, username, email, role, active, new_password) ==
    IF username \notin DOMAIN db
    THEN Outcome(db, f, FALSE, "User not found", None)
    ELSE
    LET user0 == db[username]
        user1 == IF email # None THEN [user0 EXCEPT !.email = Get(email)] ELSE user0
        user2 == IF role # None THEN [user1 EXCEPT !.role = Get(role)] ELSE user1
        user3 == [user2 EXCEPT !.active = IF active # None THEN Get(active) ELSE TRUE]
        user4 == IF new_password # None
                 THEN [user3 EXCEPT !.password = HashPassword(Get(new_password))]
                 ELSE user3
    IN  IF email # None /\ ~ValidateEmail(Get(email))
        THEN Outcome(db, f, FALSE, "Invalid email format", None)
        ELSE IF new_password # None /\ Len(Get(new_password)) < MinPasswordLen
        THEN Outcome(Put(db, username, user3), f, FALSE,
                     "Password must be at least 6 characters", None)
        ELSE LET db2 == Put(db, username, user4)
             IN Outcome(db2, SaveUsers(db2), TRUE, "User updated successfully", None)

\* UserDatabase.update_user(username, email=None, role=None, active=None,
\* new_password=None).  user is the record inside self.users: each assignment
\* changes the stored record at once, also when a later check returns False.
UpdateUser(db, f, username, email, role, active, new_password) ==
    IF username \notin DOMAIN db
    THEN Outcome(db, f, FALSE, "User not found", None)
    ELSE
    LET user0 == db[username]
        user1 == IF email # None THEN [user0 EXCEPT !.email = Get(email)] ELSE user0
        user2 == IF role # None THEN [user1 EXCEPT !.role = Get(role)] ELSE user1
        user3 == IF active # None THEN [user2 EXCEPT !.active = Get(active)] ELSE user2
        user4 == IF new_password # None
                 THEN [user3 EXCEPT !.password = HashPassword(Get(new_password))]
                 ELSE user3
    IN  IF email # None /\ ~ValidateEmail(Get(email))
        THEN Outcome(db, f, FALSE, "Invalid email format", None)
        ELSE IF new_password # None /\ Len(Get(new_password)) < MinPasswordLen
        THEN Outcome(Put(db, username, user3), f, FALSE,
                     "Password must be at least 6 characters", None)
        ELSE LET db2 == Put(db, username, user4)
             IN Outcome(db2, SaveUsers(db2), TRUE, "User updated successfully", None)

\* delete_user as a soft delete: the account is kept and marked inactive
DeleteUserSoft(db, f, username) ==
    IF username \in DOMAIN db
    THEN LET db2 == Put(db, username, [db[username] EXCEPT !.active = FALSE])
         IN Outcome(db2, SaveUsers(db2), TRUE, "User deleted", None)
    ELSE Outcome(db, f, FALSE, "User not found", None)

\* UserDatabase.delete_user(username)
DeleteUser(db, f, username) ==
    IF username \in DOMAIN db
    THEN LET db2 == Del(db, username)
         IN Outcome(db2, SaveUsers(db2), TRUE, "User deleted", None)
    ELSE Outcome(db, f, FALSE, "User not found", None)

\* authenticate that forgets to set last_login
AuthenticateKeepsLastLogin(db, f, t, username, password) ==
    IF username \notin DOMAIN db
    THEN Outcome(db, f, FALSE, "User not found", None)
    ELSE IF ~db[username].active
    THEN Outcome(db, f, FALSE, "Account is deactivated", None)
    ELSE IF db[username].password = HashPassword(password)
    THEN Outcome(db, SaveUsers(db), TRUE, "Login successful", Some(db[username].role))
    ELSE Outcome(db, f, FALSE, "Invalid password", None)

\* authenticate that sets last_login before it compares the password
AuthenticateTouchesFirst(db, f, t, username, password) ==
    IF username \notin DOMAIN db
    THEN Outcome(db, f, FALSE, "User not found", None)
    ELSE IF ~db[username].active
    THEN Outcome(db, f, FALSE, "Account is deactivated", None)
    ELSE LET db2 == Put(db, username,
                        [db[username] EXCEPT !.last_login = Isoformat(t)])
         IN IF db[username].password = HashPassword(password)
            THEN Outcome(db2, SaveUsers(db2), TRUE, "Login successful",
                         Some(db2[username].role))
            ELSE Outcome(db2, f, FALSE, "Invalid password", None)

\* authenticate that sets last_login in memory and does not save
AuthenticateDoesNotSave(db, f, t, username, password) ==
    IF username \notin DOMAIN db
    THEN Outcome(db, f, FALSE, "User not found", None)
    ELSE IF ~db[username].active
    THEN Outcome(db, f, FALSE, "Account is deactivated", None)
    ELSE IF db[username].password = HashPassword(password)
    THEN LET db2 == Put(db, username,
                        [db[username] EXCEPT !.last_login = Isoformat(t)])
         IN Outcome(db2, f, TRUE, "Login successful", Some(db2[username].role))
    ELSE Outcome(db, f, FALSE, "Invalid password", None)

\* authenticate that does not look at the active flag
AuthenticateIgnoresActive(db, f, t, username, password) ==
    IF username \notin DOMAIN db
    THEN Outcome(db, f, FALSE, "User not found", None)
    ELSE IF db[username].password = HashPassword(password)
    THEN LET db2 == Put(db, username,
                        [db[username] EXCEPT !.last_login = Isoformat(t)])
         IN Outcome(db2, SaveUsers(db2), TRUE, "Login successful",
                    Some(db2[username].role))
    ELSE Outcome(db, f, FALSE, "Invalid password", None)

\* UserDatabase.authenticate(username, password) at clock t
Authenticate(db, f, t, username, password) ==
    IF username \notin DOMAIN db
    THEN Outcome(db, f, FALSE, "User not found", None)
    ELSE IF ~db[username].active
    THEN Outcome(db, f, FALSE, "Account is deactivated", None)
    ELSE IF db[username].password = HashPassword(password)
    THEN LET db2 == Put(db, username,
                        [db[username] EXCEPT !.last_login = Isoformat(t)])
         IN Outcome(db2, SaveUsers(db2), TRUE, "Login successful",
                    Some(db2[username].role))
    ELSE Outcome(db, f, FALSE, "Invalid password", None)

\* UserDatabase.get_user(username): self.users.get(username)
GetUser(db, username) == IF username \in DOMAIN db THEN Some(db[username]) ELSE None

\* ------------------------------------------------------------------- state
VARIABLES
    users,        \* UserDatabase.users: username -> account record
    file,         \* users.json on disk
    now,          \* the latest reading of the clock (datetime.now())
    calls,        \* how many operations of the store have been called
    ret,          \* the last call of the store and what it returned
    deactivation, \* per username: what became of update_user(active=False)
    session,      \* st.session_state: authenticated, username, user_role, current_page
    chatCalls,    \* how many requests the chat-completion service has received
    gen,          \* the last call of a generator of tools.py and how it ended
    synth,        \* a call of generate_image_prompts: its arguments and its outcome
    images,       \* a call of the image stage: its arguments and its outcome
    disk,         \* the paths of the files in the local directory images/
    zap,          \* a call of send_to_zapier: its arguments and its outcome
    results,      \* the result_*.json files and the last call of save_result_to_json
    peer          \* UserDatabase.users of a second session over the same file

storeVars == <<users, file, now, calls, ret, deactivation>>
genVars == <<chatCalls, gen>>
pipeVars == <<synth, images, disk, zap>>
moreVars == <<results, peer>>
toolVars == <<genVars, pipeVars, moreVars>>
vars == <<users, file, now, calls, ret, deactivation, session, chatCalls, gen,
          synth, images, disk, zap, results, peer>>

\* The arguments the callers of the store are drawn from
Usernames == {uAdmin, uUser, uAlice, uSpace, uNewline}
Passwords == {pAdmin123, pSecret1}
Emails == {eAlice, eNotAnEmail}
Roles == {"user", "admin"}
Opt(S) == {None} \cup {Some(v) : v \in S}

\* The keyword arguments of update_user: <<email, role, active, new_password>>
UpdateArgs(E, R, A, P) == Opt(E) \X Opt(R) \X Opt(A) \X Opt(P)
Supplied(a) == {i \in 1..4 : a[i] # None}

Call(op, username, password, email, role, active, o) ==
    [op |-> op, username |-> username, password |-> password, email |-> email,
     role |-> role, active |-> active,
     ok |-> o.ok, msg |-> o.msg, rrole |-> o.role, raised |-> FALSE]

NoSession ==
    [authenticated |-> FALSE, username |-> None, user_role |-> None,
     current_page |-> None]

\* No call of that stage of the pipeline has been made
Idle == [stage |-> "idle"]
\* No result file has been written, and there is no second session
NoResults == [files |-> << >>, saves |-> 0, last |-> [stage |-> "idle"]]
NoPeer == << >>
PipeIdle ==
    /\ synth = Idle
    /\ images = Idle
    /\ disk = {}
    /\ zap = Idle
    /\ results = NoResults
    /\ peer = NoPeer

NoGen == [fn |-> "none", topic |-> None, response |-> None, raised |-> None,
          result |-> None]

\* The accounts create_default_users writes, created at clock 0
SeedAdmin ==
    [password |-> HashPassword(pAdmin123), email |-> eAdmin, role |-> "admin",
     created_at |-> Isoformat(0), last_login |-> << >>, active |-> TRUE]
SeedUser ==
    [password |-> HashPassword(pUser123), email |-> eUser, role |-> "user",
     created_at |-> Isoformat(0), last_login |-> << >>, active |-> TRUE]

\* What may be on disk when a UserDatabase is constructed: no file, a file
\* that does not parse, or a store written by an earlier run.
InitialFiles == {NoFile, CorruptFile, JsonDump(Put(EmptyStore, uAdmin, SeedAdmin))}

\* The report of UserDatabase.__init__ over the file f
Loaded(f) ==
    [op |-> "load", username |-> << >>, password |-> None, email |-> None,
     role |-> None, active |-> None, ok |-> ~LoadUsers(f).raised,
     msg |-> f.kind, rrole |-> None, raised |-> LoadUsers(f).raised]

\* UserDatabase.__init__: self.users = self._load_users()
Init ==
    /\ file \in InitialFiles
    /\ users = LoadUsers(file).users
    /\ now = 0
    /\ calls = 0
    /\ ret = Loaded(file)
    /\ deactivation = [u \in Usernames |-> "none"]
    /\ session = NoSession
    /\ chatCalls = 0
    /\ gen = NoGen
    /\ PipeIdle

\* The readings datetime.now() can give after the reading now: the clock does
\* not run backwards.
Readings == {t \in now..(now + 1) : t <= MaxTime}

\* A call of the store with the outcome o, reported as call
Returns(o, call) ==
    /\ users' = o.users
    /\ file' = o.file
    /\ ret' = call

\* One more call of the store, of at most MaxCalls
Counted ==
    /\ calls < MaxCalls
    /\ calls' = calls + 1

\* create_user(username, password, email, role); the clock is read when the
\* account is written
CreateUserCall(username, password, email, role) ==
    \E t \in IF CreateUser(users, file, now, username, password, email, role).ok
             THEN Readings ELSE {now} :
        LET o == CreateUser(users, file, t, username, password, email, role)
        IN  /\ Returns(o, Call("create_user", username, Some(password), Some(email),
                               Some(role), None, o))
            /\ now' = t
            /\ UNCHANGED deactivation

\* update_user(username, email=a[1], role=a[2], active=a[3], new_password=a[4]).
\* deactivation[username] is "deactivated" from a successful active=False until
\* a call of update_user stores active=True.
UpdateUserCall(username, a) ==
    LET o == UpdateUser(users, file, username, a[1], a[2], a[3], a[4])
    IN  /\ Returns(o, Call("update_user", username, a[4], a[1], a[2], a[3], o))
        /\ deactivation' =
             IF o.ok /\ a[3] = Some(FALSE)
             THEN [deactivation EXCEPT ![username] = "deactivated"]
             ELSE IF username \in DOMAIN users /\ a[3] = Some(TRUE)
                     /\ o.users[username].active
             THEN [deactivation EXCEPT ![username] = "none"]
             ELSE deactivation
        /\ UNCHANGED now

\* delete_user(username); deactivation[username] becomes "deleted" when a
\* deactivated account is deleted
DeleteUserCall(username) ==
    LET o == DeleteUser(users, file, username)
    IN  /\ Returns(o, Call("delete_user", username, None, None, None, None, o))
        /\ deactivation' =
             IF o.ok /\ deactivation[username] = "deactivated"
             THEN [deactivation EXCEPT ![username] = "deleted"]
             ELSE deactivation
        /\ UNCHANGED now

\* authenticate(username, password); the clock is read on success
AuthenticateCall(username, password) ==
    \E t \in IF Authenticate(users, file, now, username, password).ok
             THEN Readings ELSE {now} :
        LET o == Authenticate(users, file, t, username, password)
        IN  /\ Returns(o, Call("authenticate", username, Some(password), None, None,
                               None, o))
            /\ now' = t
            /\ UNCHANGED deactivation

\* ------------------------------------------------- the store, called directly
DoCreateUser ==
    /\ Counted
    /\ \E username \in {uAdmin, uAlice, uSpace, uNewline}, password \in {pSecret1},
          email \in Emails, role \in Roles :
           CreateUserCall(username, password, email, role)
    /\ UNCHANGED <<session, toolVars>>

\* update_user with at most one keyword supplied
DoUpdateUser ==
    /\ Counted
    /\ \E username \in {uAdmin, uAlice},
          a \in UpdateArgs({eAlice, eNotAnEmail}, Roles, BOOLEAN, {pSecret1, pShort}) :
           /\ Cardinality(Supplied(a)) <= 1
           /\ UpdateUserCall(username, a)
    /\ UNCHANGED <<session, toolVars>>

DoDeleteUser ==
    /\ Counted
    /\ \E username \in {uAdmin, uAlice, uNewline} : DeleteUserCall(username)
    /\ UNCHANGED <<session, toolVars>>

DoAuthenticate ==
    /\ Counted
    /\ \E username \in {uAdmin, uAlice, uNewline}, password \in Passwords :
           AuthenticateCall(username, password)
    /\ UNCHANGED <<session, toolVars>>

Next == DoCreateUser \/ DoUpdateUser \/ DoDeleteUser \/ DoAuthenticate

Spec == Init /\ [][Next]_vars

\* ------------------------------------- update_user with every combination
\* A store with the accounts admin and alice, as create_user leaves them
AliceAccount ==
    [password |-> HashPassword(pSecret1), email |-> eAlice, role |-> "user",
     created_at |-> Isoformat(0), last_login |-> << >>, active |-> TRUE]

AdminAndAlice == Put(Put(EmptyStore, uAdmin, SeedAdmin), uAlice, AliceAccount)

InitUpdate ==
    /\ users = AdminAndAlice
    /\ file = JsonDump(AdminAndAlice)
    /\ now = 0
    /\ calls = 0
    /\ ret = Loaded(file)
    /\ deactivation = [u \in Usernames |-> "none"]
    /\ session = NoSession
    /\ chatCalls = 0
    /\ gen = NoGen
    /\ PipeIdle

\* update_user on alice with any of the keywords supplied
UpdUpdateUser ==
    /\ \E a \in UpdateArgs({eUser, eNotAnEmail}, Roles, BOOLEAN, {pUser123, pShort}) :
           UpdateUserCall(uAlice, a)
    /\ UNCHANGED <<calls, session, toolVars>>

UpdAuthenticate ==
    /\ \E password \in {pSecret1, pUser123} : AuthenticateCall(uAlice, password)
    /\ UNCHANGED <<calls, session, toolVars>>

UpdDeleteUser ==
    /\ DeleteUserCall(uAlice)
    /\ UNCHANGED <<calls, session, toolVars>>

NextUpdate == UpdUpdateUser \/ UpdAuthenticate \/ UpdDeleteUser

SpecUpdate == InitUpdate /\ [][NextUpdate]_vars

\* ---------------------------------------------------- the dashboard shell
\* create_default_users() over the file f at clock t: the store is loaded and
\* the accounts admin and user are created when they are not in it.
CreateDefaultUsers(f, t) ==
    LET db0 == LoadUsers(f).users
        o1 == IF uAdmin \notin DOMAIN db0
              THEN CreateUser(db0, f, t, uAdmin, pAdmin123, eAdmin, "admin")
              ELSE Outcome(db0, f, TRUE, "", None)
        o2 == IF uUser \notin DOMAIN o1.users
              THEN CreateUser(o1.users, o1.file, t, uUser, pUser123, eUser, "user")
              ELSE Outcome(o1.users, o1.file, TRUE, "", None)
    IN  o2

\* The files a session may start over: those of InitialFiles, and the file a
\* former session's create_default_users has written.
SessionFiles ==
    InitialFiles \cup {JsonDump(Put(Put(EmptyStore, uAdmin, SeedAdmin), uUser, SeedUser))}

\* init_session_state() of the first script run of a session
InitDash ==
    \E f \in SessionFiles :
        /\ users = CreateDefaultUsers(f, 0).users
        /\ file = CreateDefaultUsers(f, 0).file
        /\ now = 0
        /\ calls = 0
        /\ ret = Loaded(f)
        /\ deactivation = [u \in Usernames |-> "none"]
        /\ session = NoSession
        /\ chatCalls = 0
        /\ gen = NoGen
        /\ PipeIdle

\* show_navigation: the pages of the sidebar menu for a role
MenuOptions(user_role) ==
    IF user_role = Some("admin")
    THEN {"dashboard", "user_management", "campaigns", "analytics", "settings"}
    ELSE {"dashboard", "campaigns", "profile"}

\* show_navigation: current_page is set to "dashboard" when the session has none
WithPage(current_page) ==
    IF current_page = None THEN Some("dashboard") ELSE current_page

\* The page a script run renders for the session s: main_with_auth shows the
\* login page to a session that is not authenticated, show_navigation
\* dispatches on current_page and user_role and renders nothing ("none") when
\* no branch applies. The first mutates it: the role is not looked at.
RenderedWithoutRoleCheck(s) ==
    IF ~s.authenticated THEN "login"
    ELSE IF WithPage(s.current_page)
              \in {Some("dashboard"), Some("user_management"), Some("campaigns"),
                   Some("analytics"), Some("settings"), Some("profile")}
    THEN Get(WithPage(s.current_page))
    ELSE "none"
Rendered(s) ==
    IF ~s.authenticated THEN "login"
    ELSE LET current_page == WithPage(s.current_page)
             admin == s.user_role = Some("admin")
         IN  IF current_page = Some("dashboard") THEN "dashboard"
             ELSE IF current_page = Some("user_management") /\ admin
             THEN "user_management"
             ELSE IF current_page = Some("campaigns") THEN "campaigns"
             ELSE IF current_page = Some("analytics") /\ admin THEN "analytics"
             ELSE IF current_page = Some("settings") /\ admin THEN "settings"
             ELSE IF current_page = Some("profile") THEN "profile"
             ELSE "none"

\* main_with_auth renders the login page
OnLoginPage == Rendered(session) = "login"

\* show_navigation renders show_user_management
OnUserManagement == Rendered(session) = "user_management"

\* show_navigation renders show_profile_page
OnProfile == Rendered(session) = "profile"

\* What the forms are filled with
uAl == <<"a", "l">>
Blank == << >>
LoginNames == {uAdmin, uUser, uAlice, Blank}
LoginPasswords == {pAdmin123, pUser123}
FormNames == {uAlice, uAl, uAdmin}
FormEmails == {eAlice, eNotAnEmail}
\* <<password, confirm_password>>
FormPasswords == {<<pSecret1, pSecret1>>, <<pShort, pShort>>, <<pSecret1, pShort>>}
EditPasswords == FormPasswords \cup {<<Blank, Blank>>}

\* show_login_page, the login form
Login ==
    /\ OnLoginPage
    /\ \E username \in LoginNames, password \in LoginPasswords :
         IF username = Blank \/ password = Blank
         THEN UNCHANGED vars
         ELSE /\ Counted
              /\ AuthenticateCall(username, password)
              /\ session' =
                   IF ret'.ok
                   THEN [authenticated |-> TRUE, username |-> Some(username),
                         user_role |-> ret'.rrole,
                         current_page |-> WithPage(session.current_page)]
                   ELSE session
              /\ UNCHANGED toolVars

\* show_login_page, the sign-up form
Signup ==
    /\ OnLoginPage
    /\ \E new_username \in FormNames, new_email \in FormEmails,
          pw \in FormPasswords, terms \in BOOLEAN :
         IF \/ Len(new_username) < 3
            \/ Len(pw[1]) < MinPasswordLen
            \/ pw[1] # pw[2]
            \/ ~terms
         THEN UNCHANGED vars
         ELSE /\ Counted
              /\ CreateUserCall(new_username, pw[1], new_email, "user")
              /\ UNCHANGED <<session, toolVars>>

\* logout() that leaves user_role as it is
LogoutKeepingRole ==
    /\ session.authenticated
    /\ session' = [session EXCEPT !.authenticated = FALSE, !.username = None]
    /\ UNCHANGED <<storeVars, toolVars>>

\* logout()
Logout ==
    /\ session.authenticated
    /\ session' = [session EXCEPT !.authenticated = FALSE, !.username = None,
                                  !.user_role = None]
    /\ UNCHANGED <<storeVars, toolVars>>

\* show_navigation, a button of the sidebar menu
Navigate ==
    /\ session.authenticated
    /\ \E page_id \in MenuOptions(session.user_role) :
         session' = [session EXCEPT !.current_page = Some(page_id)]
    /\ UNCHANGED <<storeVars, toolVars>>

\* show_user_management, Quick Actions: which buttons are disabled
MakeUserDisabled(selected_user) == selected_user = uAdmin
QuickDeleteNeverDisabled(selected_user) == FALSE
QuickDeleteDisabled(selected_user) == selected_user = uAdmin
\* show_user_management, Edit tab: is the Delete User button there
EditDeleteShown(edit_user) == edit_user # uAdmin

QuickToggleActive ==
    /\ OnUserManagement
    /\ Counted
    /\ \E selected_user \in DOMAIN users :
         UpdateUserCall(selected_user,
                        <<None, None, Some(~users[selected_user].active), None>>)
    /\ UNCHANGED <<session, toolVars>>

QuickMakeAdmin ==
    /\ OnUserManagement
    /\ Counted
    /\ \E selected_user \in DOMAIN users :
         UpdateUserCall(selected_user, <<None, Some("admin"), None, None>>)
    /\ UNCHANGED <<session, toolVars>>

QuickMakeUser ==
    /\ OnUserManagement
    /\ Counted
    /\ \E selected_user \in DOMAIN users :
         /\ ~MakeUserDisabled(selected_user)
         /\ UpdateUserCall(selected_user, <<None, Some("user"), None, None>>)
    /\ UNCHANGED <<session, toolVars>>

QuickDelete ==
    /\ OnUserManagement
    /\ Counted
    /\ \E selected_user \in DOMAIN users :
         /\ ~QuickDeleteDisabled(selected_user)
         /\ DeleteUserCall(selected_user)
    /\ UNCHANGED <<session, toolVars>>

\* show_user_management, the Add User form
AddUser ==
    /\ OnUserManagement
    /\ \E new_username \in FormNames, new_email \in FormEmails,
          pw \in FormPasswords, new_role \in Roles :
         IF \/ Len(new_username) < 3
            \/ ~MatchUsername(new_username)
            \/ new_email = Blank
            \/ ~ValidateEmail(new_email)
            \/ Len(pw[1]) < MinPasswordLen
            \/ pw[1] # pw[2]
         THEN UNCHANGED vars
         ELSE /\ Counted
              /\ CreateUserCall(new_username, pw[1], new_email, new_role)
              /\ UNCHANGED <<session, toolVars>>

\* show_user_management, Edit tab, Save Changes: the form always passes the
\* email, the role and the status, and the password when one was typed
EditSave ==
    /\ OnUserManagement
    /\ \E edit_user \in DOMAIN users, new_role \in Roles,
          account_status \in {"Active", "Inactive"}, pw \in EditPasswords :
       \E new_email \in {users[edit_user].email, eNotAnEmail} :
         IF pw[1] # Blank /\ (Len(pw[1]) < MinPasswordLen \/ pw[1] # pw[2])
         THEN UNCHANGED vars
         ELSE /\ Counted
              /\ UpdateUserCall(edit_user,
                     <<Some(new_email), Some(new_role),
                       Some(account_status = "Active"),
                       IF pw[1] # Blank THEN Some(pw[1]) ELSE None>>)
              /\ UNCHANGED <<session, toolVars>>

\* show_user_management, Edit tab, Delete User
EditDelete ==
    /\ OnUserManagement
    /\ Counted
    /\ \E edit_user \in DOMAIN users :
         /\ EditDeleteShown(edit_user)
         /\ DeleteUserCall(edit_user)
    /\ UNCHANGED <<session, toolVars>>

\* show_profile_page, the Change Password form
ChangePassword ==
    /\ OnProfile
    /\ Get(session.username) \in DOMAIN users
    /\ \E current_pass \in LoginPasswords, pw \in FormPasswords :
         IF \/ Len(pw[1]) < MinPasswordLen
            \/ pw[1] # pw[2]
            \/ HashPassword(current_pass) # users[Get(session.username)].password
         THEN UNCHANGED vars
         ELSE /\ Counted
              /\ UpdateUserCall(Get(session.username), <<None, None, None, Some(pw[1])>>)
              /\ UNCHANGED <<session, toolVars>>

NextDash ==
    \/ Login \/ Signup \/ Logout \/ Navigate
    \/ QuickToggleActive \/ QuickMakeAdmin \/ QuickMakeUser \/ QuickDelete
    \/ AddUser \/ EditSave \/ EditDelete \/ ChangePassword

SpecDash == InitDash /\ [][NextDash]_vars

\* ------------------------------------------------------ the text generators
\* str.strip()
RECURSIVE LStrip(_)
LStrip(s) ==
    IF s = << >> THEN s
    ELSE IF Head(s) \in Whitespace THEN LStrip(Tail(s)) ELSE s

RECURSIVE RStrip(_)
RStrip(s) ==
    IF s = << >> THEN s
    ELSE IF s[Len(s)] \in Whitespace THEN RStrip(SubSeq(s, 1, Len(s) - 1)) ELSE s

Strip(s) == RStrip(LStrip(s))

\* An exception: its class and its message
Error(type, msg) == [type |-> type, msg |-> msg]

\* "not topic or not topic.strip()"; the first mutates it (no strip)
TopicRejectedWithoutStrip(topic) == topic = None \/ Get(topic) = << >>
TopicRejected(topic) ==
    topic = None \/ Get(topic) = << >> \/ Strip(Get(topic)) = << >>

\* What the chat service answers. A post and a reel script as the prompts ask
\* for them, and the ways an answer departs from that.
Tags(n) == [i \in 1..n |-> "#tag"]
GoodPost == [title |-> "title", caption |-> "caption", hashtags |-> Tags(5)]
FourTagPost == [title |-> "title", caption |-> "caption", hashtags |-> Tags(4)]
Scene(n) == [scene |-> n, description |-> "d", camera_direction |-> "c", narration |-> "n"]
Scenes(n) == [i \in 1..n |-> Scene(i)]
UntitledPost == [caption |-> "caption", hashtags |-> Tags(5)]
PostsDocs ==
    {[posts |-> [i \in 1..n |-> GoodPost]] : n \in 2..4}
      \cup {[posts |-> <<GoodPost, FourTagPost, GoodPost>>],
            [posts |-> <<GoodPost, GoodPost, UntitledPost>>]}
ReelDocs ==
    {[reel_script |-> [hook |-> "h", scenes |-> Scenes(n), cta |-> "c"]] : n \in 2..3}
      \cup {[reel_script |-> [scenes |-> Scenes(3), cta |-> "c"]]}
JsonDocs == PostsDocs \cup ReelDocs \cup {[note |-> "n"]}
\* kind "raise": client.chat.completions.create raises; "null": the message
\* has no content; "blank": the content is empty once stripped; "text": the
\* content is not JSON; "json": the content is the JSON object doc.
Responses ==
    {[kind |-> k, doc |-> None] : k \in {"raise", "null", "blank", "text"}}
      \cup {[kind |-> "json", doc |-> Some(d)] : d \in JsonDocs}

Raises(called, e) == [called |-> called, raised |-> Some(e), result |-> None]

\* The try block shared by the two generators, from the call of the chat
\* service to the check that the answer has the key
ChatJson(response, key, invalid) ==
    IF response.kind = "raise" THEN Raises(TRUE, Error("APIError", ""))
    ELSE IF response.kind = "null" THEN Raises(TRUE, Error("AttributeError", ""))
    ELSE IF response.kind = "blank"
         THEN Raises(TRUE, Error("ValueError", "Empty response from OpenAI"))
    ELSE IF response.kind = "text" THEN Raises(TRUE, Error("JSONDecodeError", ""))
    ELSE IF key \notin DOMAIN Get(response.doc)
         THEN Raises(TRUE, Error("ValueError", invalid))
    ELSE [called |-> TRUE, raised |-> None, result |-> response.doc]

\* generate_posts(topic), the chat service answering response
GeneratePosts(topic, response) ==
    IF TopicRejected(topic)
    THEN Raises(FALSE, Error("ValueError", "Topic cannot be empty"))
    ELSE LET o == ChatJson(response, "posts", "Invalid response structure from OpenAI")
         IN  IF o.raised = None /\ Len(Get(o.result).posts) # 3
             THEN Raises(TRUE, Error("ValueError", "Invalid response structure from OpenAI"))
             ELSE o

\* generate_reels_script(topic), the chat service answering response
GenerateReelsScript(topic, response) ==
    IF TopicRejected(topic)
    THEN Raises(FALSE, Error("ValueError", "Topic cannot be empty"))
    ELSE ChatJson(response, "reel_script", "Invalid reel script response structure")

TopicChars == {"a", " ", "\n"}
Topics == Opt(UNION {[1..n -> TopicChars] : n \in 0..MaxTopicLen})

InitGen ==
    /\ file = NoFile
    /\ users = LoadUsers(file).users
    /\ now = 0
    /\ calls = 0
    /\ ret = Loaded(file)
    /\ deactivation = [u \in Usernames |-> "none"]
    /\ session = NoSession
    /\ chatCalls = 0
    /\ gen = NoGen
    /\ PipeIdle

\* What a call of the generator fn leaves behind; the chat service's answer
\* is consumed only when the service was called.
Report(fn, topic, response, o) ==
    [fn |-> fn, topic |-> topic,
     response |-> IF o.called THEN Some(response) ELSE None,
     raised |-> o.raised, result |-> o.result]

\* The chat service is called at most MaxChatCalls times.
DoGeneratePosts ==
    \E topic \in Topics, response \in Responses :
        LET o == GeneratePosts(topic, response)
        IN  /\ o.called => chatCalls < MaxChatCalls
            /\ chatCalls' = IF o.called THEN chatCalls + 1 ELSE chatCalls
            /\ gen' = Report("generate_posts", topic, response, o)
            /\ UNCHANGED <<storeVars, session, pipeVars,
                  moreVars>>

DoGenerateReelsScript ==
    \E topic \in Topics, response \in Responses :
        LET o == GenerateReelsScript(topic, response)
        IN  /\ o.called => chatCalls < MaxChatCalls
            /\ chatCalls' = IF o.called THEN chatCalls + 1 ELSE chatCalls
            /\ gen' = Report("generate_reels_script", topic, response, o)
            /\ UNCHANGED <<storeVars, session, pipeVars,
                  moreVars>>

NextGen == DoGeneratePosts \/ DoGenerateReelsScript

SpecGen == InitGen /\ [][NextGen]_vars

\* ---------------------------------------------------- the prompt synthesizer
\* A text is a sequence of pieces: a piece is one character, a placeholder or
\* a line of fixed wording.
PhTitle == "[TITLE]"
PhCaption == "[CAPTION]"
NL == "\n"
Text(n, c) == [i \in 1..n |-> c]

\* caption[:100]
CaptionLimit == 100
Truncate(s, n) == SubSeq(s, 1, IF Len(s) < n THEN Len(s) ELSE n)

\* str.replace(old, new), old being one piece
RECURSIVE Replace(_, _, _)
Replace(s, old, new) ==
    IF s = << >> THEN << >>
    ELSE (IF Head(s) = old THEN new ELSE <<Head(s)>>) \o Replace(Tail(s), old, new)

\* The lines the prompts are closed with
Critical == "CRITICAL: Absolutely NO text, NO words, NO letters, NO signs, NO labels, NO typography anywhere in the image."
DoNotGenerate == "Do not generate: store signs, product labels, brand names, written text, numbers, letters, Arabic text, English text, or any readable characters."
CleanProduct == "Clean product photography without any visible text or writing."
Square == "Aspect ratio: 1:1 (square)."
Professional == " Professional commercial photography."
CriticalBasic == "CRITICAL: Absolutely NO text, NO words, NO letters, NO signs, NO labels anywhere in the image."
CleanBasic == "Clean photography without any visible text or writing."

\* What follows {custom_prompt} in the template path
TemplateClause == <<NL, Critical, NL, DoNotGenerate, NL, CleanProduct, NL, Square>>
\* What follows {smart_prompt} in the model-crafted path
ModelClause ==
    <<NL, Critical, NL, DoNotGenerate, NL, CleanProduct, NL, Square, Professional>>
\* fallback_prompt.strip()
FallbackPrompt(title, caption) ==
    Strip(<<NL, "Professional commercial photograph.", NL, "Subject: ">> \o title
          \o <<NL, "Context: ">> \o Truncate(caption, CaptionLimit)
          \o <<NL, "Style: high-quality product photography, studio lighting",
               NL, "Mood: professional, commercial, aspirational",
               NL, CriticalBasic, NL, CleanBasic, NL, Square, NL>>
          \o Text(16, " "))

\* p.get(key, "")
Field(p, key) == IF key \in DOMAIN p THEN p[key] ELSE << >>

\* One turn of the loop over posts["posts"]: nothing for a post without a
\* title, else the prompt and the path it was made on. The first mutates it:
\* a failing chat call drops the post.
PromptForDroppingOnFailure(p, template, response) ==
    IF Field(p, "title") = << >> \/ response.kind \in {"raise", "null"} THEN None
    ELSE Some([path |-> "model", prompt |-> Strip(response.content) \o ModelClause])
PromptFor(p, template, response) ==
    LET title == Field(p, "title")
        caption == Field(p, "caption")
    IN  IF title = << >> THEN None
        ELSE IF template # None /\ Get(template) # << >>
        THEN Some([path |-> "template",
                   prompt |-> Replace(Replace(Get(template), PhTitle, title),
                                      PhCaption, Truncate(caption, CaptionLimit))
                                \o TemplateClause])
        ELSE IF response.kind \in {"raise", "null"}
        THEN Some([path |-> "fallback", prompt |-> FallbackPrompt(title, caption)])
        ELSE Some([path |-> "model",
                   prompt |-> Strip(response.content) \o ModelClause])

\* The loop from post i on: what was appended, with the index of the post
RECURSIVE PromptsFrom(_, _, _, _)
PromptsFrom(ps, template, rs, i) ==
    IF i > Len(ps) THEN << >>
    ELSE LET one == PromptFor(ps[i], template, rs[i])
         IN  (IF one = None THEN << >>
              ELSE <<[post |-> i, path |-> Get(one).path, prompt |-> Get(one).prompt]>>)
             \o PromptsFrom(ps, template, rs, i + 1)

\* generate_image_prompts(posts, custom_prompt_template), the chat service
\* answering rs[i] when asked about post i
GenerateImagePrompts(posts, template, rs) ==
    IF posts = None \/ "posts" \notin DOMAIN Get(posts) THEN << >>
    ELSE PromptsFrom(Get(posts).posts, template, rs, 1)

tSale == <<"S", "a", "l", "e">>
tOffer == <<"N", "e", "w", " ", PhCaption>>
cShort == <<"h", "i">>
cLong == Text(CaptionLimit + 1, "c")
PromptPosts ==
    {[caption |-> cShort], [title |-> << >>, caption |-> cShort],
     [title |-> tSale, caption |-> cLong], [title |-> tSale],
     [title |-> tOffer, caption |-> cShort]}
PostsArgs ==
    {None, Some([note |-> "n"])}
      \cup {Some([posts |-> ps]) : ps \in UNION {[1..n -> PromptPosts] : n \in 0..MaxPosts}}
Templates == {None, Some(<< >>), Some(<<"A", "d", " ", PhTitle, ":", " ", PhCaption>>)}
\* kind "raise": client.chat.completions.create raises; "null": the message
\* has no content; "text": the content
PromptResponses ==
    {[kind |-> k, content |-> << >>] : k \in {"raise", "null"}}
      \cup {[kind |-> "text", content |-> <<" ", "p", "h", "o", "t", "o", NL>>]}

InitPrompts ==
    /\ file = NoFile
    /\ users = LoadUsers(file).users
    /\ now = 0
    /\ calls = 0
    /\ ret = Loaded(file)
    /\ deactivation = [u \in Usernames |-> "none"]
    /\ session = NoSession
    /\ chatCalls = 0
    /\ gen = NoGen
    /\ \E posts \in PostsArgs, template \in Templates,
          rs \in [1..MaxPosts -> PromptResponses] :
         synth = [stage |-> "called", posts |-> posts, template |-> template,
                  responses |-> rs]
    /\ images = Idle
    /\ disk = {}
    /\ zap = Idle
    /\ results = NoResults
    /\ peer = NoPeer

DoGenerateImagePrompts ==
    /\ synth.stage = "called"
    /\ LET made == GenerateImagePrompts(synth.posts, synth.template, synth.responses)
       IN  /\ synth' = [stage |-> "returned", posts |-> synth.posts,
                        template |-> synth.template, responses |-> synth.responses,
                        raised |-> None, made |-> made,
                        result |-> [image_prompts |->
                                      [k \in 1..Len(made) |-> made[k].prompt]]]
           /\ chatCalls' = chatCalls
                + Cardinality({k \in 1..Len(made) : made[k].path # "template"})
    /\ UNCHANGED <<storeVars, session, gen, images, disk, zap,
                  moreVars>>

NextPrompts == DoGenerateImagePrompts

SpecPrompts == InitPrompts /\ [][NextPrompts]_vars

\* ----------------------------------------------------------- the image stage
\* clean_prompt[:1000]
PromptLimit == 1000

\* prompt.split("CRITICAL:")[0].strip()[:1000]
CleanPrompt(prompt) ==
    LET at == {i \in 1..Len(prompt) : prompt[i] \in {Critical, CriticalBasic}}
        first == IF at = {} THEN Len(prompt) + 1
                 ELSE CHOOSE i \in at : \A j \in at : i <= j
    IN  Truncate(Strip(SubSeq(prompt, 1, first - 1)), PromptLimit)

\* Python's truth of an optional string; the first mutates it (None only)
TruthyUnlessNone(o) == o # None
Truthy(o) == o # None /\ Get(o) # ""

DalleUrl == "https://dalle.example/image.png"
ReplicateUrl == "https://replicate.example/out.png"

\* generate_image_with_dalle(prompt). outcome "raise": client.images.generate
\* raises; "empty": no data; "nourl": data[0].url is None; "blank": it is "";
\* "url": it is DalleUrl.
DalleOutcomes == {"raise", "empty", "nourl", "blank", "url"}
GenerateImageWithDalle(prompt, outcome) ==
    [request |-> [provider |-> "dalle", prompt |-> CleanPrompt(prompt),
                  outcome |-> outcome],
     url |-> IF outcome = "url" THEN Some(DalleUrl)
             ELSE IF outcome = "blank" THEN Some("") ELSE None]

\* generate_image_with_replicate(prompt). outcome "raise": replicate_client.run
\* raises; "empty": no output; "nourl": output[0] is empty; "url": it is
\* ReplicateUrl.
ReplicateOutcomes == {"raise", "empty", "nourl", "url"}
GenerateImageWithReplicate(prompt, outcome) ==
    [request |-> [provider |-> "replicate", prompt |-> CleanPrompt(prompt),
                  outcome |-> outcome],
     url |-> IF outcome = "url" THEN Some(ReplicateUrl) ELSE None]

\* The local files of the stage, named after the second they are made in
TempPath(t) == [name |-> "images/temp_", ts |-> t \div 2]
BrandedPath(t) == [name |-> "images/branded_", ts |-> t \div 2]
HostedUrl(image_path) ==
    IF image_path.name = "images/temp_" THEN "https://i.ibb.co/temp.jpg"
    ELSE "https://i.ibb.co/branded.jpg"

\* upload_to_imgbb(image_path), key telling whether IMGBB_API_KEY is set and
\* files what is on the disk. outcome "raise": requests.post raises; "status":
\* not 200; "notjson": the body does not parse; "failure": success is false;
\* "nourl": no data.url; "ok": the host answers HostedUrl.
UploadOutcomes == {"raise", "status", "notjson", "failure", "nourl", "ok"}
UploadToImgbb(image_path, key, files, outcome) ==
    IF ~key THEN None
    ELSE IF image_path \notin files THEN None
    ELSE IF outcome = "ok" THEN Some(HostedUrl(image_path))
    ELSE None

\* upload_image_directly(image_url) at the clock reading t. download "raise":
\* requests.get raises; "status": raise_for_status raises. write "open": the
\* file cannot be created; "write": it is created and writing it fails.
\* The first mutates it: the file is removed when the upload succeeded only.
RehostEnvs ==
    [download : {"raise", "status", "ok"}, write : {"open", "write", "ok"},
     upload : UploadOutcomes]
UploadImageDirectlyKeepingOnFailure(image_url, key, files, t, env) ==
    LET imgbb_url == UploadToImgbb(TempPath(t), key, files \cup {TempPath(t)}, env.upload)
    IN  IF env.download # "ok" \/ env.write = "open"
        THEN [raised |-> None, result |-> None, files |-> files]
        ELSE [raised |-> None, result |-> imgbb_url,
              files |-> IF imgbb_url = None THEN files \cup {TempPath(t)}
                        ELSE files \ {TempPath(t)}]
UploadImageDirectly(image_url, key, files, t, env) ==
    IF env.download # "ok" THEN [raised |-> None, result |-> None, files |-> files]
    ELSE IF env.write = "open" THEN [raised |-> None, result |-> None, files |-> files]
    ELSE IF env.write = "write"
    THEN [raised |-> None, result |-> None, files |-> files \cup {TempPath(t)}]
    ELSE [raised |-> None,
          result |-> UploadToImgbb(TempPath(t), key, files \cup {TempPath(t)}, env.upload),
          files |-> (files \cup {TempPath(t)}) \ {TempPath(t)}]

\* add_brand_text(image_url, brand_text) at the clock reading t. outcome
\* "download": requests.get or raise_for_status raises; "decode": the bytes are
\* no image; "save": img.save raises (and leaves no file).
OverlayOutcomes == {"download", "decode", "save", "ok"}
AddBrandText(image_url, brand_text, website_text, files, t, outcome) ==
    IF outcome = "ok"
    THEN [raised |-> FALSE, path |-> Some(BrandedPath(t)),
          files |-> files \cup {BrandedPath(t)}]
    ELSE [raised |-> TRUE, path |-> None, files |-> files]

\* generate_images: the prompt it works on; the second mutates it
LastPrompt(image_prompts) == image_prompts[Len(image_prompts)]
ChosenPrompt(image_prompts) == image_prompts[1]

\* generate_images: final_url after the rehost; the first mutates it
FinalUrlIgnoringRehost(imgbb_url, clean_url) == clean_url
FinalUrl(imgbb_url, clean_url) ==
    IF ~Truthy(imgbb_url) THEN clean_url ELSE imgbb_url

\* What the stage is handed
pTemplate == <<"A", "d", " ", "S", "a", "l", "e">> \o TemplateClause
pFallback == FallbackPrompt(tSale, cShort)
pLong == Text(PromptLimit + 1, "x")
ImagePrompts == {pTemplate, pFallback, pLong}
PromptsArgs ==
    {None, Some([note |-> "n"])}
      \cup {Some([image_prompts |-> l]) :
              l \in UNION {[1..n -> ImagePrompts] : n \in 0..MaxPrompts}}
\* The text lines of a call, <<brand_text, website_text>>; website_text
\* defaults to ""
TextLines ==
    {<<None, "">>, <<Some(""), "">>, <<None, "www.experts.ae">>,
     <<Some("Experts Group FZE"), "">>,
     <<Some("Experts Group FZE"), "www.experts.ae">>}

\* "if brand_text and imgbb_url"; the first mutates it: the rehost is not
\* looked at
OverlayWantedWithoutRehost(brand_text, imgbb_url) == Truthy(brand_text)
OverlayWanted(brand_text, imgbb_url) == Truthy(brand_text) /\ Truthy(imgbb_url)

\* A call of fn of the image stage, before its first statement
ImagesCall(fn, key, prompts, brand_text, website_text, image_url) ==
    [stage |-> "called", fn |-> fn, key |-> key, prompts |-> prompts,
     brand_text |-> brand_text, website_text |-> website_text,
     image_url |-> image_url,
     trace |-> << >>, clean_url |-> None, rehost |-> None, imgbb_url |-> None,
     final_url |-> None, overlay |-> None, overlays |-> 0, local_file |-> None,
     branded |-> None, raised |-> None, result |-> None]

InitImages ==
    /\ file = NoFile
    /\ users = LoadUsers(file).users
    /\ now = 0
    /\ calls = 0
    /\ ret = Loaded(file)
    /\ deactivation = [u \in Usernames |-> "none"]
    /\ session = NoSession
    /\ chatCalls = 0
    /\ gen = NoGen
    /\ synth = Idle
    /\ \E key \in BOOLEAN :
         \/ \E prompts \in PromptsArgs, lines \in TextLines :
              images = ImagesCall("generate_images", key, prompts, lines[1],
                                  lines[2], None)
         \/ \E image_url \in {DalleUrl, ReplicateUrl} :
              images = ImagesCall("upload_image_directly", key, None, None, "",
                                  Some(image_url))
    /\ disk = {}
    /\ zap = Idle
    /\ results = NoResults
    /\ peer = NoPeer

\* generate_images returns image_urls
ImagesReturn(image_urls) == Some([image_urls |-> image_urls])

\* generate_images, from its first statement to the return of
\* generate_image_with_dalle
GenerateImagesDalle ==
    /\ images.fn = "generate_images"
    /\ images.stage = "called"
    /\ IF \/ images.prompts = None
          \/ "image_prompts" \notin DOMAIN Get(images.prompts)
          \/ Get(images.prompts).image_prompts = << >>
       THEN images' = [images EXCEPT !.stage = "returned",
                                     !.result = ImagesReturn(<< >>)]
       ELSE \E outcome \in DalleOutcomes :
              LET o == GenerateImageWithDalle(
                           ChosenPrompt(Get(images.prompts).image_prompts), outcome)
              IN  images' = [images EXCEPT
                               !.stage = IF Truthy(o.url) THEN "rehost" ELSE "replicate",
                               !.trace = Append(@, o.request),
                               !.clean_url = o.url]
    /\ UNCHANGED <<storeVars, session, genVars, synth, disk, zap,
                  moreVars>>

\* generate_images, "if not clean_url": generate_image_with_replicate
GenerateImagesReplicate ==
    /\ images.fn = "generate_images"
    /\ images.stage = "replicate"
    /\ \E outcome \in ReplicateOutcomes :
         LET o == GenerateImageWithReplicate(
                      ChosenPrompt(Get(images.prompts).image_prompts), outcome)
         IN  images' = [images EXCEPT
                          !.stage = IF Truthy(o.url) THEN "rehost" ELSE "returned",
                          !.trace = Append(@, o.request),
                          !.clean_url = o.url,
                          !.result = IF Truthy(o.url) THEN None ELSE ImagesReturn(<< >>)]
    /\ UNCHANGED <<storeVars, session, genVars, synth, disk, zap,
                  moreVars>>

\* generate_images, upload_image_directly(clean_url) and the choice of
\* final_url; without an overlay to make, the return
GenerateImagesRehost ==
    /\ images.fn = "generate_images"
    /\ images.stage = "rehost"
    /\ \E t \in Readings, env \in RehostEnvs :
         LET o == UploadImageDirectly(Get(images.clean_url), images.key, disk, t, env)
             final_url == FinalUrl(o.result, images.clean_url)
             overlay == OverlayWanted(images.brand_text, o.result)
         IN  /\ now' = t
             /\ disk' = o.files
             /\ images' = [images EXCEPT
                             !.stage = IF overlay THEN "overlay" ELSE "returned",
                             !.rehost = Some(env),
                             !.imgbb_url = o.result,
                             !.final_url = final_url,
                             !.result = IF overlay THEN None
                                        ELSE ImagesReturn(<<Get(final_url)>>)]
    /\ UNCHANGED <<users, file, calls, ret, deactivation, session, genVars, synth, zap,
                  moreVars>>

\* generate_images, add_brand_text(final_url, ...); when it raises, the return
GenerateImagesOverlay ==
    /\ images.fn = "generate_images"
    /\ images.stage = "overlay"
    /\ \E t \in Readings, outcome \in OverlayOutcomes :
         LET o == AddBrandText(Get(images.final_url), images.brand_text,
                               images.website_text, disk, t, outcome)
         IN  /\ now' = t
             /\ disk' = o.files
             /\ images' = [images EXCEPT
                             !.stage = IF o.raised THEN "returned" ELSE "branded_upload",
                             !.overlay = Some(outcome),
                             !.overlays = @ + 1,
                             !.local_file = o.path,
                             !.result = IF o.raised
                                        THEN ImagesReturn(<<Get(images.final_url)>>)
                                        ELSE None]
    /\ UNCHANGED <<users, file, calls, ret, deactivation, session, genVars, synth, zap,
                  moreVars>>

\* generate_images, upload_to_imgbb(local_file) and the return
GenerateImagesBrandedUpload ==
    /\ images.fn = "generate_images"
    /\ images.stage = "branded_upload"
    /\ \E outcome \in UploadOutcomes :
         LET uploaded_url == UploadToImgbb(Get(images.local_file), images.key, disk, outcome)
         IN  images' = [images EXCEPT
                          !.stage = "returned",
                          !.branded = Some(outcome),
                          !.result = ImagesReturn(
                               <<IF Truthy(uploaded_url) THEN Get(uploaded_url)
                                 ELSE Get(images.final_url)>>)]
    /\ UNCHANGED <<storeVars, session, genVars, synth, disk, zap,
                  moreVars>>

\* upload_image_directly(image_url), called on its own; its result is the
\* hosted URL or None
DoUploadImageDirectly ==
    /\ images.fn = "upload_image_directly"
    /\ images.stage = "called"
    /\ \E t \in Readings, env \in RehostEnvs :
         LET o == UploadImageDirectly(Get(images.image_url), images.key, disk, t, env)
         IN  /\ now' = t
             /\ disk' = o.files
             /\ images' = [images EXCEPT !.stage = "returned",
                                         !.rehost = Some(env),
                                         !.imgbb_url = o.result,
                                         !.raised = o.raised,
                                         !.result = Some(o.result)]
    /\ UNCHANGED <<users, file, calls, ret, deactivation, session, genVars, synth, zap,
                  moreVars>>

NextImages ==
    \/ GenerateImagesDalle \/ GenerateImagesReplicate \/ GenerateImagesRehost
    \/ GenerateImagesOverlay \/ GenerateImagesBrandedUpload
    \/ DoUploadImageDirectly

SpecImages == InitImages /\ [][NextImages]_vars

\* ------------------------------------------------------------- the publisher
\* A URL is a text whose first piece is what it starts with
StartsWithHttp(url) == url # << >> /\ url[1] \in {"http://", "https://"}

urlHosted == <<"https://", "i.ibb.co/temp.jpg">>
urlPlain == <<"http://", "dalle.example/image.png">>
urlLocal == <<"images/", "branded_0.jpg">>
ZapUrls == {urlHosted, urlPlain, urlLocal, << >>}
ZapPosts ==
    {[title |-> tSale, caption |-> cShort, hashtags |-> <<"#", "a", " ", "#", "b">>],
     [title |-> tOffer]}
\* The payload, key by key: None for a key that is missing or holds None
ZapPayloads ==
    [topic : {None, Some(<< >>), Some(<<"X">>)},
     posts : {None, Some(<< >>)}
               \cup {Some(<<p>>) : p \in ZapPosts}
               \cup {Some(<<p, q>>) : p \in ZapPosts, q \in ZapPosts},
     images : {None, Some([image_urls |-> None]), Some([image_urls |-> Some(<< >>)])}
                \cup {Some([image_urls |-> Some(<<u>>)]) : u \in ZapUrls}
                \cup {Some([image_urls |-> Some(<<urlHosted, urlPlain>>)])}]

\* head: what requests.head does ("raise", or the status it answers); post:
\* what requests.post does ("raise": a RequestException, or the status)
\* body: the text the webhook answers with
ZapEnvs ==
    [head : {"raise", "200", "404"}, post : {"raise", "200", "500"},
     body : {"", "accepted"}]

\* payload.get(key, "")
PayloadText(o) == IF o = None THEN << >> ELSE Get(o)

\* payload["posts"][0]; the first mutates it into the last post
LastPost(posts) == posts[Len(posts)]
FirstPost(posts) == posts[1]

\* The try block around requests.post: what the call raises and returns. The
\* first mutates it: a transport failure is raised to the caller.
PostReportRaising(env, zapier_payload) ==
    IF env.post = "raise"
    THEN [raised |-> Some(Error("RequestException", "ConnectionError")),
          result |-> None]
    ELSE [raised |-> None,
          result |-> Some([status |-> env.post, response |-> env.body,
                           sent_payload |-> zapier_payload])]
PostReport(env, zapier_payload) ==
    IF env.post = "raise"
    THEN [raised |-> None,
          result |-> Some([status |-> "error", response |-> "ConnectionError",
                           sent_payload |-> zapier_payload])]
    ELSE [raised |-> None,
          result |-> Some([status |-> env.post, response |-> env.body,
                           sent_payload |-> zapier_payload])]

\* send_to_zapier(payload) at the clock reading t. The first mutates it: the
\* webhook is called before the posts are looked at.
SendToZapierPostingFirst(payload, t, env) ==
    LET zapier_payload == [topic |-> PayloadText(payload.topic), caption |-> << >>,
                           hashtags |-> << >>, full_text |-> <<" ">>,
                           image_url |-> None, post_title |-> << >>,
                           timestamp |-> Isoformat(t)]
    IN  [heads |-> << >>, posted |-> <<zapier_payload>>,
         raised |-> Some(Error("ValueError", "No posts available to send to Zapier")),
         result |-> None]
SendToZapier(payload, t, env) ==
    LET listed == /\ payload.images # None
                  /\ Get(payload.images).image_urls # None
                  /\ Get(Get(payload.images).image_urls) # << >>
        first_url == Get(Get(payload.images).image_urls)[1]
        web == listed /\ first_url # << >> /\ StartsWithHttp(first_url)
        image_url == IF web THEN Some(first_url) ELSE None
        heads == IF web THEN <<first_url>> ELSE << >>
    IN  IF payload.posts = None \/ Len(Get(payload.posts)) = 0
        THEN [heads |-> heads, posted |-> << >>,
              raised |-> Some(Error("ValueError", "No posts available to send to Zapier")),
              result |-> None]
        ELSE LET first_post == FirstPost(Get(payload.posts))
                 zapier_payload ==
                     [topic |-> PayloadText(payload.topic),
                      caption |-> Field(first_post, "caption"),
                      hashtags |-> Field(first_post, "hashtags"),
                      full_text |-> Field(first_post, "caption") \o <<" ">>
                                      \o Field(first_post, "hashtags"),
                      image_url |-> image_url,
                      post_title |-> Field(first_post, "title"),
                      timestamp |-> Isoformat(t)]
                 report == PostReport(env, zapier_payload)
             IN  [heads |-> heads, posted |-> <<zapier_payload>>,
                  raised |-> report.raised, result |-> report.result]

InitZap ==
    /\ file = NoFile
    /\ users = LoadUsers(file).users
    /\ now = 0
    /\ calls = 0
    /\ ret = Loaded(file)
    /\ deactivation = [u \in Usernames |-> "none"]
    /\ session = NoSession
    /\ chatCalls = 0
    /\ gen = NoGen
    /\ synth = Idle
    /\ images = Idle
    /\ disk = {}
    /\ results = NoResults
    /\ peer = NoPeer
    /\ \E payload \in ZapPayloads : zap = [stage |-> "called", payload |-> payload]

DoSendToZapier ==
    /\ zap.stage = "called"
    /\ \E t \in Readings, env \in ZapEnvs :
         LET o == SendToZapier(zap.payload, t, env)
         IN  /\ now' = IF o.raised = None THEN t ELSE now
             /\ zap' = [stage |-> "returned", payload |-> zap.payload,
                        probe |-> IF o.heads = << >> THEN "none" ELSE env.head,
                        heads |-> o.heads, posted |-> o.posted,
                        raised |-> o.raised, result |-> o.result]
    /\ UNCHANGED <<users, file, calls, ret, deactivation, session, genVars,
                   synth, images, disk, moreVars>>

NextZap == DoSendToZapier

SpecZap == InitZap /\ [][NextZap]_vars

\* ------------------------------------------------------ the result snapshots
\* The number of calls of save_result_to_json in one run
MaxSaves == 3

\* f"result_{datetime.now().strftime('%Y%m%d_%H%M%S')}.json": the name holds
\* the second of the reading and nothing finer
ResultName(t) == [name |-> "result_", ts |-> t \div 2]

\* The pipeline results handed to save_result_to_json
ResultData == {"run A", "run B"}

\* What writing the file does: "ok"; "open": open() raises and touches
\* nothing; "dump": json.dump raises after open() has truncated the file
SaveOutcomes == {"ok", "open", "dump"}

\* The directory after a file is written
WriteFile(files, filename, content) ==
    [f \in DOMAIN files \cup {filename} |->
        IF f = filename THEN content ELSE files[f]]

\* save_result_to_json(data) at the clock reading t over the files of the
\* working directory
SaveResultToJson(data, t, files, outcome) ==
    LET filename == ResultName(t)
    IN  IF outcome = "open"
        THEN [files |-> files, result |-> None,
              raised |-> Some(Error("OSError", "open"))]
        ELSE IF outcome = "dump"
        THEN [files |-> WriteFile(files, filename, "partial"), result |-> None,
              raised |-> Some(Error("TypeError", "dump"))]
        ELSE [files |-> WriteFile(files, filename, data), result |-> Some(filename),
              raised |-> None]

InitSave ==
    /\ file = NoFile
    /\ users = LoadUsers(file).users
    /\ now = 0
    /\ calls = 0
    /\ ret = Loaded(file)
    /\ deactivation = [u \in Usernames |-> "none"]
    /\ session = NoSession
    /\ chatCalls = 0
    /\ gen = NoGen
    /\ synth = Idle
    /\ images = Idle
    /\ disk = {}
    /\ zap = Idle
    /\ results = NoResults
    /\ peer = NoPeer

DoSaveResultToJson ==
    /\ results.saves < MaxSaves
    /\ \E data \in ResultData, t \in Readings, outcome \in SaveOutcomes :
         LET o == SaveResultToJson(data, t, results.files, outcome)
         IN  /\ now' = t
             /\ results' = [files |-> o.files, saves |-> results.saves + 1,
                            last |-> [stage |-> "returned", data |-> data,
                                      filename |-> ResultName(t),
                                      existed |-> ResultName(t) \in DOMAIN results.files,
                                      result |-> o.result, raised |-> o.raised]]
    /\ UNCHANGED <<users, file, calls, ret, deactivation, session, genVars, pipeVars,
                   peer>>

NextSave == DoSaveResultToJson

SpecSave == InitSave /\ [][NextSave]_vars

\* ------------------------------------------- two sessions over one users.json
\* Each session's init_session_state builds its own UserDatabase, which loads
\* the file once; session 1 holds users and session 2 holds peer.
Sessions == {1, 2}
UsersOf(s) == IF s = 1 THEN users ELSE peer

\* The file both sessions were started over: the seeded store
SeededFile == JsonDump(Put(Put(EmptyStore, uAdmin, SeedAdmin), uUser, SeedUser))

\* init_session_state() of both sessions, before any of them acts
InitPeers ==
    /\ file = SeededFile
    /\ users = CreateDefaultUsers(file, 0).users
    /\ peer = CreateDefaultUsers(file, 0).users
    /\ now = 0
    /\ calls = 0
    /\ ret = Loaded(file)
    /\ deactivation = [u \in Usernames |-> "none"]
    /\ session = NoSession
    /\ chatCalls = 0
    /\ gen = NoGen
    /\ synth = Idle
    /\ images = Idle
    /\ disk = {}
    /\ zap = Idle
    /\ results = NoResults

\* A call of session s's store with the outcome o: its own users dict and
\* the shared file change, the other session's dict does not
PeerReturns(s, o, call) ==
    /\ users' = IF s = 1 THEN o.users ELSE users
    /\ peer' = IF s = 2 THEN o.users ELSE peer
    /\ file' = o.file
    /\ ret' = call
    /\ UNCHANGED <<deactivation, session, genVars, pipeVars, results>>

\* Sign-up or Add User in session s
PeerCreateUser ==
    /\ Counted
    /\ \E s \in Sessions, t \in Readings :
         LET o == CreateUser(UsersOf(s), file, t, uAlice, pSecret1, eAlice, "user")
         IN  /\ PeerReturns(s, o, Call("create_user", uAlice, Some(pSecret1),
                                       Some(eAlice), Some("user"), None, o))
             /\ now' = IF o.ok THEN t ELSE now

\* Toggle Active or a change of password in session s
PeerUpdateUser ==
    /\ Counted
    /\ \E s \in Sessions, username \in {uUser, uAlice},
          a \in {<<None, None, Some(FALSE), None>>, <<None, None, None, Some(pSecret1)>>} :
         LET o == UpdateUser(UsersOf(s), file, username, a[1], a[2], a[3], a[4])
         IN  PeerReturns(s, o, Call("update_user", username, a[4], a[1], a[2], a[3], o))
    /\ UNCHANGED now

\* Delete in session s
PeerDeleteUser ==
    /\ Counted
    /\ \E s \in Sessions, username \in {uUser, uAlice} :
         LET o == DeleteUser(UsersOf(s), file, username)
         IN  PeerReturns(s, o, Call("delete_user", username, None, None, None, None, o))
    /\ UNCHANGED now

\* A login in session s
PeerAuthenticate ==
    /\ Counted
    /\ \E s \in Sessions, username \in {uAdmin, uUser}, t \in Readings :
         LET password == IF username = uAdmin THEN pAdmin123 ELSE pUser123
             o == Authenticate(UsersOf(s), file, t, username, password)
         IN  /\ PeerReturns(s, o, Call("authenticate", username, Some(password),
                                       None, None, None, o))
             /\ now' = IF o.ok THEN t ELSE now

NextPeers == PeerCreateUser \/ PeerUpdateUser \/ PeerDeleteUser \/ PeerAuthenticate

SpecPeers == InitPeers /\ [][NextPeers]_vars

\* ------------------------------------------------- claims about the store
StoreOps == {"create_user", "update_user", "delete_user", "authenticate"}

\* C1: once create_user(u, p, e) has succeeded, authenticate(u, p) succeeds,
\* returns the role the account was created with and is stored with ("user" by
\* default), and sets last_login to the reading of the clock, which is not
\* before created_at.
C1_CreateThenAuthenticate ==
    [][(/\ ret.op = "create_user" /\ ret.ok
        /\ ret'.op = "authenticate"
        /\ ret'.username = ret.username
        /\ ret'.password = ret.password)
       => LET acct == users'[ret.username]
          IN  /\ ret'.ok
              /\ ret'.rrole = ret.role
              /\ ret'.rrole = Some(acct.role)
              /\ acct.last_login = Isoformat(now')
              /\ FromIsoformat(acct.last_login) >= FromIsoformat(acct.created_at)
      ]_vars

\* C1 happens: alice, created by the first call with the default role, has
\* logged in by the second call, later than she was created.
C1_Witness ==
    /\ calls = 2
    /\ ret.op = "authenticate" /\ ret.ok /\ ret.username = uAlice
    /\ ret.rrole = Some("user")
    /\ FromIsoformat(users[uAlice].last_login) > FromIsoformat(users[uAlice].created_at)

\* C3: authenticate fails with "User not found" for an absent username, with
\* "Account is deactivated" for an account with active = false, with "Invalid
\* password" when the stored hash differs from the hash of the password; a
\* failing authenticate returns no role and changes neither the store nor the
\* file.
C3_AuthenticateFailures ==
    [][(ret'.op = "authenticate" /\ calls' # calls)
       => LET u == ret'.username
              pw == Get(ret'.password)
          IN  /\ u \notin DOMAIN users
                   => ~ret'.ok /\ ret'.msg = "User not found"
              /\ (u \in DOMAIN users /\ ~users[u].active)
                   => ~ret'.ok /\ ret'.msg = "Account is deactivated"
              /\ (u \in DOMAIN users /\ users[u].active
                    /\ users[u].password # HashPassword(pw))
                   => ~ret'.ok /\ ret'.msg = "Invalid password"
              /\ ~ret'.ok
                   => ret'.rrole = None /\ users' = users /\ file' = file
      ]_vars

\* C3 happens: a wrong password for an account that has logged in before
C3_Witness ==
    /\ ret.op = "authenticate" /\ ret.msg = "Invalid password"
    /\ users[ret.username].last_login # << >>

\* C4 as claimed: create_user fails when the username is present, when the
\* email is not of the shape local@domain.tld, or when the username has a
\* character that is no letter, digit or underscore; a failing create_user
\* changes neither the store nor the file.
C4_CreateUserRejects ==
    [][(ret'.op = "create_user" /\ calls' # calls)
       => LET u == ret'.username
              e == Get(ret'.email)
          IN  /\ (u \in DOMAIN users \/ ~EmailShape(e) \/ ~OnlyUsernameChars(u))
                   => ~ret'.ok
              /\ ~ret'.ok => users' = users /\ file' = file
      ]_vars

\* What of C4 the code does: the same, with the username and the email judged
\* by the patterns as re.match applies them.
C4_CreateUserRejectsByPattern ==
    [][(ret'.op = "create_user" /\ calls' # calls)
       => LET u == ret'.username
              e == Get(ret'.email)
          IN  /\ (u \in DOMAIN users \/ ~ValidateEmail(e) \/ ~MatchUsername(u))
                   => ~ret'.ok
              /\ ~ret'.ok => users' = users /\ file' = file
      ]_vars

\* C5: when create_user, update_user, delete_user or authenticate has returned
\* success, the file holds the store as it is in memory.
C5_SavedOnSuccess ==
    (ret.op \in StoreOps /\ ret.ok)
        => file.kind = "json" /\ LoadUsers(file).users = users

\* C5 happens: the third call was a login, and the file carries its last_login
C5_Witness ==
    /\ calls = 3
    /\ ret.op = "authenticate" /\ ret.ok
    /\ file.data[ret.username].last_login = Isoformat(now)

\* C6 as claimed: a file that exists and cannot be read or parsed makes the
\* construction of the store raise; the store never starts empty from it.
C6_LoadFailurePropagates ==
    (ret.op = "load" /\ ret.msg = "corrupt") => ret.raised

\* C8: delete_user fails with "User not found" for an absent username and
\* changes neither the store nor the file; for a present username it succeeds,
\* removes that account and no other, changes no other account, and get_user
\* and authenticate then report the username as absent.
C8_DeleteUser ==
    [][/\ (ret'.op = "delete_user" /\ calls' # calls)
          => LET u == ret'.username
             IN  /\ u \notin DOMAIN users
                      => /\ ~ret'.ok /\ ret'.msg = "User not found"
                         /\ users' = users /\ file' = file
                 /\ u \in DOMAIN users
                      => /\ ret'.ok
                         /\ DOMAIN users' = (DOMAIN users) \ {u}
                         /\ \A k \in DOMAIN users' : users'[k] = users[k]
                         /\ GetUser(users', u) = None
       /\ (ret.op = "delete_user" /\ ret.ok /\ ret'.op = "authenticate"
             /\ ret'.username = ret.username)
          => ~ret'.ok /\ ret'.msg = "User not found"
      ]_vars

\* C8 happens: an account was deleted and another one is still there
C8_Witness ==
    /\ ret.op = "delete_user" /\ ret.ok
    /\ users # EmptyStore

\* C2 as claimed: once update_user(u, active=False) has succeeded, every
\* authenticate(u, pw) fails with "Account is deactivated" until an update_user
\* sets active back to True.
C2_DeactivatedUntilReactivated ==
    (ret.op = "authenticate" /\ deactivation[ret.username] \in {"deactivated", "deleted"})
        => ~ret.ok /\ ret.msg = "Account is deactivated"

\* C2 as amended: once update_user(u, active=False) has succeeded, every
\* authenticate(u, pw) fails with "Account is deactivated" until an update_user
\* stores active=True or delete_user removes the account.
C2_DeactivatedUntilReactivatedOrDeleted ==
    (ret.op = "authenticate" /\ deactivation[ret.username] = "deactivated")
        => ~ret.ok /\ ret.msg = "Account is deactivated"

\* C2 happens: the correct password of a deactivated account was refused
C2_Witness ==
    /\ ret.op = "authenticate"
    /\ deactivation[ret.username] = "deactivated"
    /\ users[ret.username].password = HashPassword(Get(ret.password))
    /\ ret.msg = "Account is deactivated"

C9_AdminNeverRemoved ==
    /\ uAdmin \in DOMAIN users
    /\ file.kind = "json"
    /\ uAdmin \in DOMAIN LoadUsers(file).users

\* C9 happens: an admin has deleted an account through the dashboard
C9_Witness ==
    /\ session.authenticated
    /\ ret.op = "delete_user" /\ ret.ok
    /\ uAdmin \in DOMAIN users

\* A topic that is absent, empty or made of whitespace only
BlankTopic(topic) ==
    topic = None \/ \A i \in 1..Len(Get(topic)) : Get(topic)[i] \in Whitespace

\* C10: generate_posts and generate_reels_script called with an empty or
\* whitespace-only topic raise the validation error "Topic cannot be empty",
\* return nothing, and make no call to the chat service.
C10_BlankTopicFailsBeforeChat ==
    [][(gen' # gen \/ chatCalls' # chatCalls) /\ BlankTopic(gen'.topic)
         => /\ gen'.fn \in {"generate_posts", "generate_reels_script"}
            /\ gen'.raised = Some(Error("ValueError", "Topic cannot be empty"))
            /\ gen'.result = None
            /\ gen'.response = None
            /\ chatCalls' = chatCalls]_vars

\* C10 happens: after calls that reached the chat service, a generator is
\* called with a topic of whitespace only and raises
C10_Witness ==
    /\ gen.fn = "generate_reels_script"
    /\ gen.topic = Some(<<" ", "\n">>)
    /\ gen.raised # None
    /\ chatCalls > 0

\* A post with a title, a caption and exactly 5 hashtags
WellFormedPost(p) ==
    /\ {"title", "caption", "hashtags"} \subseteq DOMAIN p
    /\ Len(p.hashtags) = 5

\* C11: whatever the chat service answers, generate_posts raises or returns
\* exactly 3 posts, each with a title, a caption and exactly 5 hashtags.
C11_PostsWellFormed ==
    (gen.fn = "generate_posts" /\ gen.raised = None)
        => /\ gen.result # None
           /\ "posts" \in DOMAIN Get(gen.result)
           /\ Len(Get(gen.result).posts) = 3
           /\ \A i \in 1..Len(Get(gen.result).posts) :
                  WellFormedPost(Get(gen.result).posts[i])

\* A reel script with a hook, exactly 3 scenes and a cta
WellFormedReel(r) ==
    /\ {"hook", "scenes", "cta"} \subseteq DOMAIN r
    /\ Len(r.scenes) = 3

\* C12: whatever the chat service answers, generate_reels_script raises or
\* returns a reel script with a hook, exactly 3 scenes and a cta.
C12_ReelWellFormed ==
    (gen.fn = "generate_reels_script" /\ gen.raised = None)
        => /\ gen.result # None
           /\ "reel_script" \in DOMAIN Get(gen.result)
           /\ WellFormedReel(Get(gen.result).reel_script)

\* The posts handed to generate_image_prompts, and those with a title
PostsOf(posts) ==
    IF posts = None \/ "posts" \notin DOMAIN Get(posts) THEN << >> ELSE Get(posts).posts
Titled(ps) == {i \in 1..Len(ps) : "title" \in DOMAIN ps[i] /\ ps[i].title # << >>}

\* C13: generate_image_prompts raises nothing and returns one prompt for each
\* post with a non-empty title, in the order of the posts, on the template
\* path, on the model-crafted path and when the chat call fails.
C13_OnePromptPerTitledPost ==
    synth.stage = "returned"
        => /\ synth.raised = None
           /\ Len(synth.result.image_prompts) = Cardinality(Titled(PostsOf(synth.posts)))
           /\ Len(synth.made) = Len(synth.result.image_prompts)
           /\ \A k \in 1..Len(synth.made) :
                /\ synth.made[k].post \in Titled(PostsOf(synth.posts))
                /\ synth.made[k].prompt = synth.result.image_prompts[k]
                /\ synth.made[k].prompt # << >>
                /\ \A l \in 1..Len(synth.made) :
                     k < l => synth.made[k].post < synth.made[l].post

\* C13 happens: of two posts the first has no title and the chat call about
\* the second fails
C13_Witness ==
    /\ synth.stage = "returned"
    /\ Len(PostsOf(synth.posts)) = 2
    /\ Len(synth.made) = 1
    /\ synth.made[1].post = 2
    /\ synth.made[1].path = "fallback"

\* The template with the title and the truncated caption in place of the
\* placeholders
RECURSIVE Substituted(_, _, _)
Substituted(t, title, caption) ==
    IF t = << >> THEN << >>
    ELSE (IF Head(t) = PhTitle THEN title
          ELSE IF Head(t) = PhCaption THEN caption
          ELSE <<Head(t)>>) \o Substituted(Tail(t), title, caption)

EndsWith(s, e) ==
    Len(s) >= Len(e) /\ SubSeq(s, Len(s) - Len(e) + 1, Len(s)) = e

\* The no-text clause, as the template path words it
NoTextClause == <<Critical, NL, DoNotGenerate, NL, CleanProduct, NL, Square>>

\* On the template path the prompt is the template with the post's title and
\* its caption cut to 100 characters in place of the placeholders
TemplateSubstitutes ==
    synth.stage = "returned"
        => \A k \in 1..Len(synth.made) :
             synth.made[k].path = "template"
               => LET p == PostsOf(synth.posts)[synth.made[k].post]
                  IN  synth.made[k].prompt =
                        Substituted(Get(synth.template), p.title,
                                    Truncate(Field(p, "caption"), CaptionLimit))
                          \o <<NL>> \o NoTextClause

\* On every path the prompt ends with the one no-text clause
SameClauseOnEveryPath ==
    synth.stage = "returned"
        => \A k \in 1..Len(synth.made) : EndsWith(synth.made[k].prompt, NoTextClause)

\* C14: a prompt made from a template has the post's title and the caption cut
\* to 100 characters in place of [TITLE] and [CAPTION], and on the template
\* path, the model-crafted path and the fallback path the prompt ends with the
\* same fixed no-text clause.
C14_SubstitutedAndSameClause == TemplateSubstitutes /\ SameClauseOnEveryPath

\* The requests a provider has received, and whether a request got a URL
Attempts(provider) ==
    {k \in 1..Len(images.trace) : images.trace[k].provider = provider}
Usable(request) == request.outcome = "url"
\* generate_images was handed at least one prompt
SomePrompt ==
    /\ images.prompts # None
    /\ "image_prompts" \in DOMAIN Get(images.prompts)
    /\ Len(Get(images.prompts).image_prompts) > 0
ImagesReturned == images.fn = "generate_images" /\ images.stage = "returned"

\* C15: in generate_images DALL-E is asked first and at most once, Replicate
\* is asked if and only if DALL-E gave no usable URL, and with a prompt to work
\* on image_urls is empty if and only if neither gave one.
C15_SecondaryIffPrimaryFails ==
    images.fn = "generate_images"
        => /\ Cardinality(Attempts("dalle")) <= 1
           /\ Len(images.trace) > 0 => images.trace[1].provider = "dalle"
           /\ \A k \in Attempts("replicate") : k = 2 /\ ~Usable(images.trace[1])
           /\ (images.stage = "returned" /\ SomePrompt)
                => /\ Attempts("dalle") = {1}
                   /\ Attempts("replicate") # {} <=> ~Usable(images.trace[1])
                   /\ Get(images.result).image_urls = << >>
                        <=> \A k \in 1..Len(images.trace) : ~Usable(images.trace[k])

\* C15 happens: DALL-E answers an empty URL, Replicate is asked and gives one
C15_Witness ==
    /\ ImagesReturned
    /\ Len(images.trace) = 2
    /\ images.trace[1].outcome = "blank"
    /\ images.trace[2].outcome = "url"
    /\ Len(Get(images.result).image_urls) = 1

\* C16: the providers receive the first prompt only, and generate_images
\* returns at most one URL.
C16_FirstPromptOnly ==
    images.fn = "generate_images"
        => /\ \A k \in 1..Len(images.trace) :
                images.trace[k].prompt
                  = CleanPrompt(Get(images.prompts).image_prompts[1])
           /\ images.stage = "returned" => Len(Get(images.result).image_urls) <= 1

\* C16 happens: two different prompts, both providers asked, one URL
C16_Witness ==
    /\ ImagesReturned
    /\ SomePrompt
    /\ Len(Get(images.prompts).image_prompts) = 2
    /\ CleanPrompt(Get(images.prompts).image_prompts[1])
         # CleanPrompt(Get(images.prompts).image_prompts[2])
    /\ Len(images.trace) = 2
    /\ Len(Get(images.result).image_urls) = 1

\* C17: upload_image_directly raises nothing, returns None when the download,
\* the write or the upload fails, and once it has written the temporary file
\* the file is gone when it returns, whatever the upload did.
C17_RehostCleansUp ==
    (images.fn = "upload_image_directly" /\ images.stage = "returned")
        => LET env == Get(images.rehost)
               ok == /\ env.download = "ok" /\ env.write = "ok"
                     /\ images.key /\ env.upload = "ok"
           IN  /\ images.raised = None
               /\ ~ok => Get(images.result) = None
               /\ ok => Get(images.result) = Some("https://i.ibb.co/temp.jpg")
               /\ (env.download = "ok" /\ env.write = "ok")
                    => \A f \in disk : f.name # "images/temp_"

\* C17 happens: the file is written and the host refuses the upload
C17_Witness ==
    /\ images.fn = "upload_image_directly"
    /\ images.stage = "returned"
    /\ images.key
    /\ Get(images.rehost).download = "ok"
    /\ Get(images.rehost).write = "ok"
    /\ Get(images.rehost).upload = "failure"
    /\ disk = {}

\* The branded file is gone once its upload was attempted
BrandedFileRemoved ==
    (ImagesReturned /\ images.branded # None) => Get(images.local_file) \notin disk

\* C18: the branded file written by add_brand_text is removed after the upload
\* attempt, whether it succeeded or failed, and when generate_images returns
\* no file made by the rehost or the overlay during the run is left.
C18_NoTemporaryFileRemains ==
    /\ BrandedFileRemoved
    /\ ImagesReturned => disk = {}

\* C19: when a provider gave a URL, generate_images raises nothing and
\* returns exactly one URL: the branded hosted one if the overlay and its
\* upload succeeded, else the rehosted one if the rehost succeeded, else the
\* provider's.
C19_DegradesToUsableUrl ==
    (ImagesReturned /\ \E k \in 1..Len(images.trace) : Usable(images.trace[k]))
        => LET env == Get(images.rehost)
               rehosted == /\ env.download = "ok" /\ env.write = "ok"
                           /\ images.key /\ env.upload = "ok"
               brandedUp == images.overlay = Some("ok") /\ images.branded = Some("ok")
               provided == IF Usable(images.trace[1]) THEN DalleUrl ELSE ReplicateUrl
           IN  /\ images.raised = None
               /\ Get(images.result).image_urls =
                    <<IF brandedUp THEN "https://i.ibb.co/branded.jpg"
                      ELSE IF rehosted THEN "https://i.ibb.co/temp.jpg"
                      ELSE provided>>

\* C19 happens: the overlay is made, its upload fails, the rehosted URL is
\* returned
C19_Witness ==
    /\ ImagesReturned
    /\ images.overlay = Some("ok")
    /\ images.branded = Some("failure")
    /\ Get(images.result).image_urls = <<"https://i.ibb.co/temp.jpg">>

\* C20: send_to_zapier with an empty or missing posts list raises the
\* no-posts error, returns nothing and sends no POST to the webhook, whatever
\* the topic and the images are.
C20_NoPostsNoWebhook ==
    (zap.stage = "returned"
       /\ (zap.payload.posts = None \/ Get(zap.payload.posts) = << >>))
        => /\ zap.raised = Some(Error("ValueError", "No posts available to send to Zapier"))
           /\ zap.result = None
           /\ zap.posted = << >>

\* C20 happens: no posts, a topic and a hosted image whose URL was probed
C20_Witness ==
    /\ zap.stage = "returned"
    /\ zap.payload.posts = Some(<< >>)
    /\ zap.payload.topic = Some(<<"X">>)
    /\ zap.heads = <<urlHosted>>
    /\ zap.raised # None

\* C21: whenever send_to_zapier is given a non-empty posts list, what it sends
\* to the webhook is built from the first post alone: caption, hashtags and
\* post_title are that post's fields (the empty text for a missing one),
\* full_text is the caption, one space, the hashtags, and topic is the given
\* topic (the empty text when there is none).
C21_PayloadFromFirstPost ==
    (zap.stage = "returned" /\ zap.payload.posts # None
       /\ Get(zap.payload.posts) # << >>)
        => /\ Len(zap.posted) >= 1
           /\ LET first == Get(zap.payload.posts)[1]
                  sent == zap.posted[1]
              IN  /\ sent.caption = Field(first, "caption")
                  /\ sent.hashtags = Field(first, "hashtags")
                  /\ sent.post_title = Field(first, "title")
                  /\ sent.full_text = sent.caption \o <<" ">> \o sent.hashtags
                  /\ sent.topic = PayloadText(zap.payload.topic)

\* C21 happens: two different posts, the first with a caption and hashtags
C21_Witness ==
    /\ zap.stage = "returned"
    /\ zap.payload.posts # None
    /\ Len(Get(zap.payload.posts)) = 2
    /\ Get(zap.payload.posts)[1] # Get(zap.payload.posts)[2]
    /\ Field(Get(zap.payload.posts)[1], "caption") = cShort
    /\ zap.payload.topic = Some(<<"X">>)
    /\ zap.posted # << >>

\* C21 happens as well for a first post that has neither caption nor hashtags
C21_WitnessMissingFields ==
    /\ zap.stage = "returned"
    /\ zap.payload.posts # None
    /\ Len(Get(zap.payload.posts)) = 2
    /\ Get(zap.payload.posts)[1] = [title |-> tOffer]
    /\ zap.payload.topic = None
    /\ zap.posted # << >>
    /\ zap.posted[1].full_text = <<" ">>

\* C22: whenever send_to_zapier is given a non-empty posts list it sends
\* exactly one POST, whatever the probe of the image URL did (or whether
\* there was one), raises nothing, and returns a report that holds the
\* webhook's status or "error", the answer's body or the error's text, and
\* the very payload it sent.
C22_OnePostAndAReport ==
    (zap.stage = "returned" /\ zap.payload.posts # None
       /\ Get(zap.payload.posts) # << >>)
        => /\ Len(zap.posted) = 1
           /\ zap.raised = None
           /\ zap.result # None
           /\ Get(zap.result).sent_payload = zap.posted[1]
           /\ Get(zap.result).status \in {"error", "200", "500"}
           /\ Get(zap.result).response \in {"ConnectionError", "", "accepted"}
           /\ (Get(zap.result).status = "error")
                <=> (Get(zap.result).response = "ConnectionError")

\* C22 happens: the probe of the image URL failed and so did the POST
C22_Witness ==
    /\ zap.stage = "returned"
    /\ zap.heads = <<urlHosted>>
    /\ zap.probe = "raise"
    /\ zap.posted # << >>
    /\ zap.result # None
    /\ Get(zap.result).status = "error"

\* C22 happens as well when the image URL is no web URL and the webhook
\* answers with a status other than 200
C22_WitnessNotOk ==
    /\ zap.stage = "returned"
    /\ zap.payload.images = Some([image_urls |-> Some(<<urlLocal>>)])
    /\ zap.heads = << >>
    /\ zap.posted # << >>
    /\ zap.result # None
    /\ Get(zap.result).status = "500"
    /\ Get(zap.result).sent_payload.image_url = None

\* C23: result snapshots are write-once and one per call: no call of
\* save_result_to_json changes a file an earlier call has written, two calls
\* within the same clock second included, and every call that returns a name
\* has added a file of its own.
C23_SnapshotsWriteOnce ==
    [][/\ \A f \in DOMAIN results.files :
            f \in DOMAIN results'.files /\ results'.files[f] = results.files[f]
       /\ (results'.saves # results.saves /\ results'.last.result # None)
            => Cardinality(DOMAIN results'.files)
                 = Cardinality(DOMAIN results.files) + 1]_vars

\* C24: generate_images calls add_brand_text at most once in a run, and only
\* with a non-empty brand_text and a hosted URL from the first rehost; a run
\* without a brand_text, with or without a website_text, never calls it and
\* leaves no branded file.
C24_OverlayIsOptIn ==
    images.fn = "generate_images"
        => /\ images.overlays <= 1
           /\ (images.overlays = 1 \/ images.stage \in {"overlay", "branded_upload"})
                => /\ Truthy(images.brand_text)
                   /\ Truthy(images.imgbb_url)
                   /\ images.final_url = images.imgbb_url
           /\ ~Truthy(images.brand_text)
                => /\ images.overlays = 0
                   /\ images.overlay = None
                   /\ \A f \in disk : f.name # "images/branded_"

\* C24 happens: a run with both lines and a successful rehost has made its
\* one call of add_brand_text and returned
C24_Witness ==
    /\ images.fn = "generate_images"
    /\ images.stage = "returned"
    /\ images.brand_text = Some("Experts Group FZE")
    /\ images.website_text = "www.experts.ae"
    /\ images.overlays = 1

\* C24 happens as well without the call: a website_text alone and a
\* successful rehost
C24_WitnessWebsiteOnly ==
    /\ images.fn = "generate_images"
    /\ images.stage = "returned"
    /\ images.brand_text = None
    /\ images.website_text = "www.experts.ae"
    /\ Truthy(images.imgbb_url)
    /\ images.overlays = 0

\* C24 happens as well without the call: a brand_text and a failed rehost
C24_WitnessNoRehost ==
    /\ images.fn = "generate_images"
    /\ images.stage = "returned"
    /\ images.brand_text = Some("Experts Group FZE")
    /\ ~Truthy(images.imgbb_url)
    /\ images.result # None
    /\ Get(images.result).image_urls # << >>
    /\ images.overlays = 0

\* C25: a call of update_user that returns failure leaves the account as it
\* was: the record in memory has the same email, role, active flag and
\* password hash after the call as before it, and the file is not written.
C25_FailedUpdateChangesNothing ==
    [][(ret'.op = "update_user" /\ ~ret'.ok)
         => /\ DOMAIN users' = DOMAIN users
            /\ \A u \in DOMAIN users :
                 /\ users'[u].email = users[u].email
                 /\ users'[u].role = users[u].role
                 /\ users'[u].active = users[u].active
                 /\ users'[u].password = users[u].password
            /\ file' = file]_vars

\* C26: with two sessions over one users.json no update is lost: a call that
\* writes the file changes in it the account the call names and no other, so
\* what the other session created, deleted, deactivated or re-passworded
\* before is still in the file.
C26_NoUpdateLost ==
    [][file' # file
         => \A u \in (DOMAIN file.data \cup DOMAIN file'.data) \ {ret'.username} :
                /\ u \in DOMAIN file.data
                /\ u \in DOMAIN file'.data
                /\ file'.data[u] = file.data[u]]_vars

\* C27: in every state of a session, authenticated is true exactly when
\* username and user_role are both set, and the two are set or unset together
SessionConsistent ==
    /\ session.authenticated <=> (session.username # None /\ session.user_role # None)
    /\ (session.username = None) <=> (session.user_role = None)

\* a step that leaves the login page authenticated is a successful
\* authenticate and takes its username and the role it returned; a login that
\* fails changes nothing of the session; a step that ends the authentication
\* clears username and user_role
SessionSteps ==
    /\ (~session.authenticated /\ session'.authenticated)
          => /\ ret'.op = "authenticate" /\ ret'.ok
             /\ session'.username = Some(ret'.username)
             /\ session'.user_role = ret'.rrole
             /\ ret'.rrole \in {Some("user"), Some("admin")}
    /\ (~session.authenticated /\ ret' # ret /\ ret'.op = "authenticate" /\ ~ret'.ok)
          => session' = session
    /\ (session.authenticated /\ ~session'.authenticated)
          => /\ session'.username = None
             /\ session'.user_role = None
             /\ session'.current_page = session.current_page

C27_SessionFieldsTogether == []SessionConsistent /\ [][SessionSteps]_vars

\* C27 happens: a session that logged in, logged out and failed to log in
C27_Witness ==
    /\ ~session.authenticated
    /\ session.current_page # None
    /\ ret.op = "authenticate"
    /\ ~ret.ok

\* C27 happens as well: a session that is logged in as a user
C27_WitnessLoggedIn ==
    /\ session.authenticated
    /\ session.username = Some(uUser)
    /\ session.user_role = Some("user")

\* C28: the user-management, analytics and settings pages are rendered only
\* for a session that is authenticated with user_role "admin", whatever
\* current_page an earlier login left, and a session that is not
\* authenticated is shown the login page and nothing else.
C28_AdminPagesForAdminsOnly ==
    /\ Rendered(session) \in {"user_management", "analytics", "settings"}
         => (session.authenticated /\ session.user_role = Some("admin"))
    /\ ~session.authenticated => Rendered(session) = "login"
    /\ Rendered(session) = "login" => ~session.authenticated

\* C28 happens: a user logged in over the page an admin had left open
C28_Witness ==
    /\ session.authenticated
    /\ session.user_role = Some("user")
    /\ session.current_page \in {Some("user_management"), Some("analytics"),
                                 Some("settings")}
    /\ Rendered(session) = "none"

\* C28 happens as well: logged out with an admin page as current_page
C28_WitnessLoggedOut ==
    /\ ~session.authenticated
    /\ session.current_page = Some("user_management")
    /\ Rendered(session) = "login"

\* C29: whenever the session is authenticated, its username names an account
\* of the store that is active, and its user_role is the role stored for that
\* account, whatever the admin actions taken while it is logged in.
C29_SessionMatchesStore ==
    session.authenticated
        => /\ Get(session.username) \in DOMAIN users
           /\ users[Get(session.username)].active
           /\ session.user_role = Some(users[Get(session.username)].role)

\* C30: in every state of the dashboard over the seeded store some account is
\* both active and of role "admin", and an account that is not a seeded one
\* and was made by the sign-up form has the role "user".
SomeActiveAdmin == \E u \in DOMAIN users : users[u].active /\ users[u].role = "admin"

SignupMakesUsers ==
    (OnLoginPage /\ ret' # ret /\ ret'.op = "create_user" /\ ret'.ok)
        => /\ ret'.role = Some("user")
           /\ users'[ret'.username].role = "user"

C30_AnAdminRemains == []SomeActiveAdmin /\ [][SignupMakesUsers]_vars

====
